---- MODULE Spec2Model ----
(***************************************************************************)
(* Model of server/main.py of ko-stdict-mcp-server: the credential         *)
(* resolver get_api_key and the three handlers that call it (search,       *)
(* entry, entry_resource), the error translator humanize_error, the entry  *)
(* and search normalisers and the markdown renderer.                       *)
(*                                                                         *)
(* Spec      : the handlers as coroutines of one asyncio event loop.  A    *)
(*             coroutine is suspended only at an await (ctx.elicit,        *)
(*             request_json); the code between two awaits is one action.   *)
(* SpecNorm  : clamping, error translation and search normalisation as     *)
(*             functions of the arguments and of the raw response.         *)
(* SpecEntry : entry normalisation and rendering over nested view          *)
(*             responses.                                                  *)
(***************************************************************************)
EXTENDS Integers, Sequences, FiniteSets, TLC

VARIABLES
    env,        \* value of os.environ["STDICT_API_KEY"], None when unset
    keyring,    \* "absent" (import failed), "broken" (calls raise), "ok"
    cfWritable, \* whether CONFIG_PATH can be created and written
    config,     \* content of CONFIG_PATH
    store,      \* password kept by the secret store for (service, username)
    pc,         \* per invocation: "idle", "eliciting", "requesting", "done"
    op,         \* per invocation: the handler that runs
    src,        \* per invocation: the source get_api_key returned from
    ret,        \* per invocation: the value get_api_key returned
    log,        \* per invocation: the sources get_api_key has probed, in order
    wrote,      \* per invocation: the sinks its write-back wrote
    http,       \* per invocation: whether request_json was called
    reply,      \* per invocation: the elicitation result in flight
    outcome,    \* per invocation: how the handler ended
    raced,      \* per invocation: another one wrote back while it was eliciting
    call        \* SpecNorm, SpecEntry: the function applied, its input and output

credVars == <<env, keyring, cfWritable, config, store>>
invVars  == <<pc, op, src, ret, log, wrote, http, reply, outcome, raced>>
vars     == <<env, keyring, cfWritable, config, store,
              pc, op, src, ret, log, wrote, http, reply, outcome, raced, call>>

(***************************************************************************)
(* Strings of the credential chain are sequences of characters, so that    *)
(* str.strip() is computed and not assumed.                                *)
(***************************************************************************)
MaxKeyLen == 2

Alphabet == {" ", "a"}

None == <<"None">>

RECURSIVE StringsOfLen(_)
StringsOfLen(n) ==
    IF n = 0 THEN {<<>>}
    ELSE {<<c>> \o s : c \in Alphabet, s \in StringsOfLen(n - 1)}

RawStrings == UNION {StringsOfLen(n) : n \in 0..MaxKeyLen}

\* Python truthiness of an optional string
Truthy(v) == v # None /\ v # <<>>

RECURSIVE LStrip(_)
LStrip(s) == IF s # <<>> /\ Head(s) = " " THEN LStrip(Tail(s)) ELSE s

RECURSIVE RStrip(_)
RStrip(s) ==
    IF s # <<>> /\ s[Len(s)] = " " THEN RStrip(SubSeq(s, 1, Len(s) - 1)) ELSE s

Strip(s) == RStrip(LStrip(s))

Keys == {Strip(s) : s \in RawStrings}

Procs == {1, 2}

NoFile  == [kind |-> "nofile",  api_key |-> None]
Corrupt == [kind |-> "corrupt", api_key |-> None]
ConfigObj(v) == [kind |-> "obj", api_key |-> v]

NoReply == [action |-> "none", data |-> None]

\* what `await ctx.elicit(...)` can produce: a result object, or an exception
\* ("raise") when the client does not support elicitation
ElicitResults ==
    {[action |-> "accept", data |-> d] : d \in RawStrings \cup {None}}
    \cup {[action |-> a, data |-> None] : a \in {"decline", "cancel", "raise"}}

IdleCall == [fn |-> "idle"]

(***************************************************************************)
(* get_api_key, lines 46-92.                                               *)
(***************************************************************************)
\* lines 52-59: exists(), read_text(), json.loads(), data.get("api_key");
\* a missing file yields nothing and any exception is swallowed
ReadConfigKey == IF config.kind = "obj" THEN config.api_key ELSE None

\* lines 63-68: keyring.get_password(...), exceptions swallowed
KeyringGet == IF keyring = "ok" THEN store ELSE None

\* lines 79-83: keyring.set_password(...), exceptions swallowed
KeyringSet(v) == IF keyring = "ok" THEN v ELSE store

\* first-write-wins: an existing key is kept
ConfigWriteOnce(v) ==
    IF cfWritable /\ ~Truthy(ReadConfigKey) THEN ConfigObj(v) ELSE config

\* lines 85-89: mkdir + write_text(json.dumps({"api_key": v})), exceptions swallowed
ConfigWrite(v) == IF cfWritable THEN ConfigObj(v) ELSE config

\* the config file consulted before the environment variable
GetApiKeyConfigFirst(hasCtx) ==
    LET l1 == <<"config">>
        k1 == ReadConfigKey
        l2 == Append(l1, "env")
        l3 == IF keyring # "absent" THEN Append(l2, "keyring") ELSE l2
        k3 == IF keyring # "absent" THEN KeyringGet ELSE None
    IN  IF Truthy(k1)
        THEN [next |-> "return", src |-> "config", ret |-> k1, log |-> l1]
        ELSE IF Truthy(env)
        THEN [next |-> "return", src |-> "env", ret |-> env, log |-> l2]
        ELSE IF Truthy(k3)
        THEN [next |-> "return", src |-> "keyring", ret |-> k3, log |-> l3]
        ELSE IF hasCtx
        THEN [next |-> "elicit", src |-> "none", ret |-> None,
              log |-> Append(l3, "elicit")]
        ELSE [next |-> "raise", src |-> "none", ret |-> None, log |-> l3]

\* lines 47-71 and 92: the part of get_api_key that runs before the await.
\* next = "return" (a source had a key), "elicit" (ctx.elicit is awaited)
\* or "raise" (RuntimeError of line 92).
GetApiKey(hasCtx) ==
    LET l1 == <<"env">>
        l2 == Append(l1, "config")
        k2 == ReadConfigKey
        l3 == IF keyring # "absent" THEN Append(l2, "keyring") ELSE l2
        k3 == IF keyring # "absent" THEN KeyringGet ELSE None
    IN  IF Truthy(env)
        THEN [next |-> "return", src |-> "env", ret |-> env, log |-> l1]
        ELSE IF Truthy(k2)
        THEN [next |-> "return", src |-> "config", ret |-> k2, log |-> l2]
        ELSE IF Truthy(k3)
        THEN [next |-> "return", src |-> "keyring", ret |-> k3, log |-> l3]
        ELSE IF hasCtx
        THEN [next |-> "elicit", src |-> "none", ret |-> None,
              log |-> Append(l3, "elicit")]
        ELSE [next |-> "raise", src |-> "none", ret |-> None, log |-> l3]

\* line 76: the elicitation result is used
Accepted(r) == r.action = "accept" /\ Truthy(r.data)

\* line 77
ApiKeyOf(r) == Strip(r.data)

(***************************************************************************)
(* The handlers.  A handler starts, calls get_api_key and either fails,    *)
(* suspends in ctx.elicit, or goes on to request_json (lines 128, 240).    *)
(***************************************************************************)
StartCall(p, o, hasCtx) ==
    /\ pc[p] = "idle"
    /\ LET r == GetApiKey(hasCtx) IN
        /\ op' = [op EXCEPT ![p] = o]
        /\ log' = [log EXCEPT ![p] = r.log]
        /\ src' = [src EXCEPT ![p] = r.src]
        /\ ret' = [ret EXCEPT ![p] = r.ret]
        /\ pc' = [pc EXCEPT ![p] =
                    CASE r.next = "return" -> "requesting"
                      [] r.next = "elicit" -> "eliciting"
                      [] OTHER             -> "done"]
        /\ http' = [http EXCEPT ![p] = (r.next = "return")]
        /\ outcome' = [outcome EXCEPT ![p] =
                    IF r.next = "raise" THEN "MissingCredential" ELSE "pending"]
    /\ UNCHANGED <<credVars, wrote, reply, raced, call>>

\* lines 216-240: the search tool is given a Context
SearchCall(p) == StartCall(p, "search", TRUE)

\* lines 273-280: the entry tool passes its Context on
EntryCall(p) == StartCall(p, "entry", TRUE)

\* the resource handing an interactive context on
EntryResourceCallWithCtx(p) == StartCall(p, "resource", TRUE)

\* lines 188-191: the resource calls _fetch_entry_by_target_code without ctx
EntryResourceCall(p) == StartCall(p, "resource", FALSE)

\* lines 72-92: ctx.elicit returns r (or raises) and get_api_key runs to its
\* end; no await lies between line 76 and line 90, then the handler goes on.
ElicitReturns(p) ==
    /\ pc[p] = "eliciting"
    /\ \E r \in ElicitResults :
        /\ reply' = [reply EXCEPT ![p] = r]
        /\ IF Accepted(r)
           THEN /\ store' = KeyringSet(ApiKeyOf(r))
                /\ config' = ConfigWrite(ApiKeyOf(r))
                /\ wrote' = [wrote EXCEPT ![p] =
                        (IF KeyringSet(ApiKeyOf(r)) = ApiKeyOf(r) /\ keyring = "ok"
                         THEN {"keyring"} ELSE {})
                        \cup (IF cfWritable THEN {"config"} ELSE {})]
                /\ src' = [src EXCEPT ![p] = "elicit"]
                /\ ret' = [ret EXCEPT ![p] = ApiKeyOf(r)]
                /\ pc' = [pc EXCEPT ![p] = "requesting"]
                /\ http' = [http EXCEPT ![p] = TRUE]
                /\ raced' = [q \in Procs |->
                        IF q # p /\ pc[q] = "eliciting" THEN TRUE ELSE raced[q]]
                /\ UNCHANGED outcome
           ELSE /\ pc' = [pc EXCEPT ![p] = "done"]
                /\ outcome' = [outcome EXCEPT ![p] =
                        IF r.action = "raise" THEN "ElicitFailed"
                        ELSE "MissingCredential"]
                /\ UNCHANGED <<store, config, wrote, src, ret, http, raced>>
    /\ UNCHANGED <<env, keyring, cfWritable, op, log, call>>

\* lines 94-104 and what follows the await of request_json: the response is
\* turned into a result or a failure without touching shared state
HttpReturns(p) ==
    /\ pc[p] = "requesting"
    /\ \E o \in {"result", "RemoteFailure"} :
            outcome' = [outcome EXCEPT ![p] = o]
    /\ pc' = [pc EXCEPT ![p] = "done"]
    /\ UNCHANGED <<credVars, op, src, ret, log, wrote, http, reply, raced, call>>

\* the handler's result or exception is handed to the framework
Finish(p) ==
    /\ pc[p] = "done"
    /\ pc' = [pc EXCEPT ![p] = "idle"]
    /\ op' = [op EXCEPT ![p] = "none"]
    /\ src' = [src EXCEPT ![p] = "none"]
    /\ ret' = [ret EXCEPT ![p] = None]
    /\ log' = [log EXCEPT ![p] = <<>>]
    /\ wrote' = [wrote EXCEPT ![p] = {}]
    /\ http' = [http EXCEPT ![p] = FALSE]
    /\ reply' = [reply EXCEPT ![p] = NoReply]
    /\ outcome' = [outcome EXCEPT ![p] = "pending"]
    /\ raced' = [raced EXCEPT ![p] = FALSE]
    /\ UNCHANGED <<credVars, call>>

InitInv ==
    /\ pc = [p \in Procs |-> "idle"]
    /\ op = [p \in Procs |-> "none"]
    /\ src = [p \in Procs |-> "none"]
    /\ ret = [p \in Procs |-> None]
    /\ log = [p \in Procs |-> <<>>]
    /\ wrote = [p \in Procs |-> {}]
    /\ http = [p \in Procs |-> FALSE]
    /\ reply = [p \in Procs |-> NoReply]
    /\ outcome = [p \in Procs |-> "pending"]
    /\ raced = [p \in Procs |-> FALSE]

Init ==
    /\ env \in {None} \cup Keys
    /\ keyring \in {"absent", "broken", "ok"}
    /\ cfWritable \in BOOLEAN
    /\ config \in {NoFile, Corrupt} \cup {ConfigObj(v) : v \in {None} \cup Keys}
    /\ store \in (IF keyring = "ok" THEN {None} \cup Keys ELSE {None})
    /\ InitInv
    /\ call = IdleCall

Next ==
    \E p \in Procs :
        \/ SearchCall(p)
        \/ EntryCall(p)
        \/ EntryResourceCall(p)
        \/ ElicitReturns(p)
        \/ HttpReturns(p)
        \/ Finish(p)

Spec == Init /\ [][Next]_vars

(***************************************************************************)
(* JSON values of the remote's responses.  A key of an object is Absent,   *)
(* null, a string or a number.  A field that the remote encodes either as  *)
(* one value or as a sequence carries its encoding.  The module is ASCII:  *)
(* the Korean literals of the source are written in English.               *)
(***************************************************************************)
Absent  == [t |-> "absent"]
Null    == [t |-> "null"]
JStr(x) == [t |-> "str", s |-> x]
JNum(n) == [t |-> "num", n |-> n]

\* d.get(k) and d.get(k, dflt) of a key whose value is v
Get(v)         == IF v = Absent THEN Null ELSE v
GetOr(v, dflt) == IF v = Absent THEN dflt ELSE v

\* Python truthiness of a JSON scalar
TruthyJ(v) == \/ v.t = "str" /\ v.s # ""
              \/ v.t = "num" /\ v.n # 0

\* str(v), and {v} in an f-string
Fmt(v) == CASE v.t = "str" -> v.s
            [] v.t = "num" -> ToString(v.n)
            [] OTHER       -> "None"

AbsentField == [enc |-> "absent", items |-> <<>>]
Single(x)   == [enc |-> "single", items |-> <<x>>]
ListOf(xs)  == [enc |-> "list",   items |-> xs]

(***************************************************************************)
(* humanize_error, lines 106-117.                                          *)
(***************************************************************************)
GenericExplanation == "An error occurred while processing the request."

Known(code) ==
    CASE code = "020" -> "Unregistered key."
      [] code = "021" -> "Temporarily suspended authentication key."
      [] code = "100" -> "Improper query request (q missing etc.)."
      [] code = "103" -> "Improper number of results (num)."
      [] OTHER        -> GenericExplanation

\* the message appended whether or not it is empty
HumanizeErrorAlwaysAppends(err_json) ==
    LET err  == err_json.error
        code == Fmt(GetOr(err.error_code, JStr("")))
        msg  == GetOr(err.message, JStr(""))
    IN  "[" \o code \o "] " \o Known(code) \o " - " \o Fmt(msg)

HumanizeError(err_json) ==
    LET err  == err_json.error
        code == Fmt(GetOr(err.error_code, JStr("")))
        msg  == GetOr(err.message, JStr(""))
    IN  "[" \o code \o "] " \o Known(code)
            \o (IF TruthyJ(msg) THEN " - " \o Fmt(msg) ELSE "")

\* `"error" in raw`
HasError(raw) == raw.error # Absent

Failure(m) == [failed |-> TRUE, msg |-> m, parsed |-> FALSE, result |-> Null]
Success(r) == [failed |-> FALSE, msg |-> "", parsed |-> TRUE, result |-> r]

(***************************************************************************)
(* search, lines 216-269.                                                  *)
(***************************************************************************)
MinStart == 1
MinNum   == 10
MaxNum   == 100

\* lines 223-224
ClampStart(start) == IF start < MinStart THEN MinStart ELSE start

\* the upper limit forgotten
ClampNumNoUpper(num) == IF num < MinNum THEN MinNum ELSE num

\* lines 225-228
ClampNum(num) ==
    IF num < MinNum THEN MinNum
    ELSE IF num > MaxNum THEN MaxNum
    ELSE num

\* lines 231-239
SearchParams(key, q, start, num, advanced) ==
    [key |-> key, type_search |-> "search", q |-> q, req_type |-> "json",
     start |-> ClampStart(start), num |-> ClampNum(num), advanced |-> advanced]

\* a dict is falsy when it has no key
EmptyItem(it) ==
    /\ it.target_code = Absent /\ it.word = Absent
    /\ it.pos = Absent /\ it.sense = Absent

\* lines 247-249: ch.get("item") or [], a dict wrapped in a list
ItemsRaw(ch) ==
    LET f == ch.item IN
    IF f.enc = "list" THEN f.items
    ELSE IF f.enc = "single" /\ ~EmptyItem(f.items[1]) THEN f.items
    ELSE <<>>

EmptySenseObj == [definition |-> Absent, link |-> Absent, type |-> Absent]

\* lines 252-262
SearchItem(it) ==
    LET sense == IF it.sense = Absent \/ it.sense = Null
                    \/ it.sense = EmptySenseObj
                 THEN EmptySenseObj ELSE it.sense
        target_code == Get(it.target_code)
    IN  [target_code  |-> target_code,
         word         |-> Get(it.word),
         pos          |-> Get(it.pos),
         definition   |-> Get(sense.definition),
         link         |-> Get(sense.link),
         type         |-> Get(sense.type),
         resource_uri |-> "stdict://entry/" \o Fmt(target_code)]

EmptyChannel ==
    [t |-> "obj", total |-> Absent, start |-> Absent, num |-> Absent,
     item |-> AbsentField]

\* lines 244-269, with the clamped start and num of the request
SearchNormalize(raw, start, num) ==
    IF raw.channel = Null
    THEN [failed |-> TRUE, msg |-> "AttributeError", parsed |-> TRUE,
          result |-> Null]
    ELSE LET ch == IF raw.channel = Absent THEN EmptyChannel ELSE raw.channel
             items_raw == ItemsRaw(ch)
         IN  Success([total |-> GetOr(ch.total, JNum(0)),
                      start |-> GetOr(ch.start, JNum(start)),
                      num   |-> GetOr(ch.num, JNum(num)),
                      items |-> [i \in 1..Len(items_raw) |->
                                    SearchItem(items_raw[i])]])

\* lines 240-269: what search does with the response
SearchAfterRequest(raw, start, num) ==
    IF HasError(raw) THEN Failure(HumanizeError(raw))
    ELSE SearchNormalize(raw, start, num)

(***************************************************************************)
(* _fetch_entry_by_target_code, lines 119-185.  A block of a nesting       *)
(* level is a dict (isDict) with the keys the code reads, or another       *)
(* value, which the isinstance tests skip.                                 *)
(***************************************************************************)
\* dicts without a key are falsy
EmptyPosBlock(pi)   == pi.pos = Absent /\ pi.comm_pattern_info.enc = "absent"
EmptyCpiBlock(cpi)  == cpi.sense_info.enc = "absent"
EmptySenseBlock(se) ==
    /\ se.type = Absent /\ se.definition = Absent
    /\ se.example_info.enc = "absent"

\* `x = d.get(k, []); if not isinstance(x, list): x = [x] if x else []`
\* (lines 140-142, 151-153, 158-160); empty tells whether the single value
\* is falsy
AsList(f, empty) ==
    IF f.enc = "list" THEN f.items
    ELSE IF f.enc = "single" /\ ~empty THEN f.items
    ELSE <<>>

SingleIsFalsy1(f) ==
    f.enc = "single" /\ f.items[1].isDict /\ EmptyPosBlock(f.items[1])
SingleIsFalsy2(f) ==
    f.enc = "single" /\ f.items[1].isDict /\ EmptyCpiBlock(f.items[1])
SingleIsFalsy3(f) ==
    f.enc = "single" /\ f.items[1].isDict /\ EmptySenseBlock(f.items[1])

\* lines 165-172
RECURSIVE ExamplesOfList(_)
ExamplesOfList(exi) ==
    IF exi = <<>> THEN <<>>
    ELSE (IF Head(exi).isDict /\ TruthyJ(Get(Head(exi).example))
          THEN <<Head(exi).example.s>> ELSE <<>>)
         \o ExamplesOfList(Tail(exi))

Examples(sense) ==
    LET exi == sense.example_info IN
    IF exi.enc = "list" THEN ExamplesOfList(exi.items)
    ELSE IF exi.enc = "single" /\ exi.items[1].isDict
            /\ TruthyJ(Get(exi.items[1].example))
    THEN <<exi.items[1].example.s>>
    ELSE <<>>

\* lines 162-178
RECURSIVE SensesOfList(_)
SensesOfList(si_list) ==
    IF si_list = <<>> THEN <<>>
    ELSE (IF ~Head(si_list).isDict THEN <<>>
          ELSE <<[type       |-> Get(Head(si_list).type),
                  definition |-> Get(Head(si_list).definition),
                  examples   |-> Examples(Head(si_list))]>>)
         \o SensesOfList(Tail(si_list))

\* lines 155-178
RECURSIVE SensesOfCpis(_)
SensesOfCpis(cpi_list) ==
    IF cpi_list = <<>> THEN <<>>
    ELSE (IF ~Head(cpi_list).isDict THEN <<>>
          ELSE SensesOfList(AsList(Head(cpi_list).sense_info,
                                   SingleIsFalsy3(Head(cpi_list).sense_info))))
         \o SensesOfCpis(Tail(cpi_list))

\* lines 144-178: the loop over pi_list, from the pos and senses so far
RECURSIVE WalkPos(_, _, _)
WalkPos(pi_list, pos, senses) ==
    IF pi_list = <<>> THEN [pos |-> pos, senses |-> senses]
    ELSE LET pi == Head(pi_list) IN
         IF ~pi.isDict THEN WalkPos(Tail(pi_list), pos, senses)
         ELSE WalkPos(Tail(pi_list),
                      IF ~TruthyJ(pos) THEN GetOr(pi.pos, JStr("")) ELSE pos,
                      senses \o SensesOfCpis(
                          AsList(pi.comm_pattern_info,
                                 SingleIsFalsy2(pi.comm_pattern_info))))

EmptyWordInfo == [word |-> Absent, pos_info |-> AbsentField]

\* lines 132-134: (raw.get("channel") or {}), (ch.get("item") or {}),
\* (item.get("word_info") or {})
WordInfo(raw) ==
    IF raw.channel = Absent \/ raw.channel = Null THEN EmptyWordInfo
    ELSE IF raw.channel.item = Absent \/ raw.channel.item = Null
    THEN EmptyWordInfo
    ELSE IF raw.channel.item.word_info = Absent
            \/ raw.channel.item.word_info = Null
    THEN EmptyWordInfo
    ELSE raw.channel.item.word_info

\* lines 132-185
EntryNormalize(raw, target_code) ==
    LET wi == WordInfo(raw)
        w  == WalkPos(AsList(wi.pos_info, SingleIsFalsy1(wi.pos_info)),
                      JStr(""), <<>>)
    IN  [target_code |-> target_code,
         word        |-> Get(wi.word),
         pos         |-> w.pos,
         senses      |-> w.senses]

\* lines 128-185: what _fetch_entry_by_target_code does with the response
FetchAfterRequest(raw, target_code) ==
    IF HasError(raw) THEN Failure(HumanizeError(raw))
    ELSE Success(EntryNormalize(raw, target_code))

\* lines 280-283: the entry tool adds the resource URI
EntryToolResult(raw, target_code) ==
    LET r == FetchAfterRequest(raw, target_code) IN
    IF r.failed THEN r
    ELSE Success([target_code  |-> r.result.target_code,
                  word         |-> r.result.word,
                  pos          |-> r.result.pos,
                  senses       |-> r.result.senses,
                  resource_uri |-> "stdict://entry/" \o ToString(target_code)])

(***************************************************************************)
(* entry_resource, lines 188-212.  The document is the sequence of its     *)
(* lines, which the code joins with newlines and encodes.                  *)
(***************************************************************************)
\* `x or ""` for a sense field
OrEmpty(v) == IF TruthyJ(v) THEN Fmt(v) ELSE ""

\* lines 199-209
RECURSIVE RenderSenses(_, _)
RenderSenses(senses, i) ==
    IF senses = <<>> THEN <<>>
    ELSE LET s0  == Head(senses)
             exs == s0.examples
         IN  <<"## Sense " \o ToString(i) \o ". " \o OrEmpty(s0.type),
               OrEmpty(s0.definition)>>
             \o (IF exs # <<>>
                 THEN <<"", "**Examples**">>
                      \o [k \in 1..Len(exs) |-> "- " \o exs[k]]
                 ELSE <<>>)
             \o <<"">>
             \o RenderSenses(Tail(senses), i + 1)

\* lines 194-209: data always has the keys word and pos, so the defaults of
\* data.get('word','') and data.get('pos','') are never used
Render(data, target_code) ==
    <<"# " \o Fmt(data.word) \o " (" \o Fmt(data.pos) \o ")",
      "*target_code*: " \o ToString(target_code),
      "">>
    \o RenderSenses(data.senses, 1)

\* lines 191-212
EntryResourceResult(raw, target_code) ==
    LET r == FetchAfterRequest(raw, target_code) IN
    IF r.failed THEN r
    ELSE Success([mime |-> "text/markdown",
                  entry |-> r.result,
                  lines |-> Render(r.result, target_code)])

(***************************************************************************)
(* The responses the remote is taken to send.                              *)
(***************************************************************************)
ArgSlack  == 1
MaxItems  == 2
MaxBlocks == 4

ErrorCodes == {Absent} \cup {JStr(c) : c \in {"020", "021", "100", "103", "999"}}
Messages   == {Absent, Null, JStr(""), JStr("x")}
ErrorObjects == [error_code : ErrorCodes, message : Messages]

\* search responses
SenseObjects ==
    {EmptySenseObj,
     [definition |-> JStr("d"), link |-> JStr("http://l"), type |-> JStr("t")]}
SearchItems ==
    {[target_code |-> Absent, word |-> Absent, pos |-> Absent, sense |-> Absent],
     [target_code |-> JNum(435977), word |-> JStr("w"), pos |-> JStr("noun"),
      sense |-> [definition |-> JStr("d"), link |-> JStr("http://l"),
                 type |-> JStr("t")]],
     [target_code |-> Absent, word |-> JStr("v"), pos |-> Null, sense |-> Null]}

RECURSIVE SeqsOfLen(_, _)
SeqsOfLen(S, n) ==
    IF n = 0 THEN {<<>>}
    ELSE {<<x>> \o r : x \in S, r \in SeqsOfLen(S, n - 1)}

ItemFields ==
    {AbsentField} \cup {Single(x) : x \in SearchItems}
    \cup {ListOf(xs) : xs \in UNION {SeqsOfLen(SearchItems, n) : n \in 0..MaxItems}}

SearchChannels ==
    {Absent, Null}
    \cup {[t |-> "obj", total |-> JNum(3), start |-> JNum(2), num |-> JNum(20),
           item |-> f] : f \in ItemFields}
    \cup {[t |-> "obj", total |-> Absent, start |-> Absent, num |-> Absent,
           item |-> f] : f \in ItemFields}

SearchResponses ==
    {[error |-> Absent, channel |-> ch] : ch \in SearchChannels}
    \cup {[error |-> e, channel |-> ch] :
            e \in ErrorObjects,
            ch \in {Absent, Null,
                    [t |-> "obj", total |-> JNum(3), start |-> JNum(2),
                     num |-> JNum(20), item |-> AbsentField]}}

StartArgs(slack) == (MinStart - slack)..(MinStart + slack)
NumArgs(slack)   == ((MinNum - slack)..(MinNum + slack))
                    \cup ((MaxNum - slack)..(MaxNum + slack))

TargetCodes == {435977}

\* view responses: the blocks of the three nesting levels
NonDictExample == [isDict |-> FALSE, example |-> Absent]
ExampleObjs ==
    {[isDict |-> TRUE, example |-> JStr("e1")],
     [isDict |-> TRUE, example |-> Absent]}

NonDictSense ==
    [isDict |-> FALSE, type |-> Absent, definition |-> Absent,
     example_info |-> AbsentField]
SenseBlocks ==
    {[isDict |-> TRUE, type |-> Absent, definition |-> Absent,
      example_info |-> AbsentField],
     [isDict |-> TRUE, type |-> JStr("t"), definition |-> JStr("d1"),
      example_info |-> Single([isDict |-> TRUE, example |-> JStr("e1")])],
     [isDict |-> TRUE, type |-> Null, definition |-> JStr("d2"),
      example_info |-> ListOf(<<[isDict |-> TRUE, example |-> JStr("e2")],
                               [isDict |-> TRUE, example |-> Absent],
                               NonDictExample>>)],
     NonDictSense}

NonDictCpi == [isDict |-> FALSE, sense_info |-> AbsentField]
NonDictPos == [isDict |-> FALSE, pos |-> Absent, comm_pattern_info |-> AbsentField]

PosValues == {Absent, Null, JStr("noun"), JStr("verb")}

\* the fields of a level that hold exactly n blocks, nested ones included
SenseFields(n) ==
    (IF n = 0 THEN {AbsentField} ELSE {})
    \cup (IF n = 1 THEN {Single(b) : b \in SenseBlocks} ELSE {})
    \cup {ListOf(xs) : xs \in SeqsOfLen(SenseBlocks, n)}

CpiBlocks(m) ==
    {[isDict |-> TRUE, sense_info |-> f] : f \in SenseFields(m - 1)}
    \cup (IF m = 1 THEN {NonDictCpi} ELSE {})

RECURSIVE CpiSeqs(_)
CpiSeqs(n) ==
    IF n = 0 THEN {<<>>}
    ELSE UNION {{<<b>> \o r : b \in CpiBlocks(m), r \in CpiSeqs(n - m)} :
                    m \in 1..n}

CpiFields(n) ==
    (IF n = 0 THEN {AbsentField} ELSE {})
    \cup (IF n > 0 THEN {Single(b) : b \in CpiBlocks(n)} ELSE {})
    \cup {ListOf(xs) : xs \in CpiSeqs(n)}

PosBlocks(m) ==
    {[isDict |-> TRUE, pos |-> v, comm_pattern_info |-> f] :
        v \in PosValues, f \in CpiFields(m - 1)}
    \cup (IF m = 1 THEN {NonDictPos} ELSE {})

RECURSIVE PosSeqs(_)
PosSeqs(n) ==
    IF n = 0 THEN {<<>>}
    ELSE UNION {{<<b>> \o r : b \in PosBlocks(m), r \in PosSeqs(n - m)} :
                    m \in 1..n}

PosFields(n) ==
    (IF n = 0 THEN {AbsentField} ELSE {})
    \cup (IF n > 0 THEN {Single(b) : b \in PosBlocks(n)} ELSE {})
    \cup {ListOf(xs) : xs \in PosSeqs(n)}

WordValues == {Absent, Null, JStr("w")}

ViewChannel(wi) == [t |-> "obj", item |-> [t |-> "obj", word_info |-> wi]]

\* the word_info objects that hold at most n blocks
WordInfos(n) ==
    {[word |-> w, pos_info |-> f] :
        w \in WordValues, f \in UNION {PosFields(k) : k \in 0..n}}

\* view responses without an error key, of at most n blocks
ViewResponses(n) ==
    {[error |-> Absent, channel |-> ch] :
        ch \in {Absent, Null, [t |-> "obj", item |-> Absent],
                [t |-> "obj", item |-> [t |-> "obj", word_info |-> Null]]}}
    \cup {[error |-> Absent, channel |-> ViewChannel(wi)] : wi \in WordInfos(n)}

\* view responses with an error key, and a few without
ShallowViewResponses(n) ==
    {[error |-> e, channel |-> ch] :
        e \in ErrorObjects,
        ch \in {Absent,
                ViewChannel([word |-> JStr("w"),
                             pos_info |-> Single(
                                [isDict |-> TRUE, pos |-> JStr("noun"),
                                 comm_pattern_info |-> AbsentField])])}}
    \cup {[error |-> Absent, channel |-> ViewChannel(wi)] :
            wi \in {[word |-> w, pos_info |-> f] :
                        w \in WordValues, f \in PosFields(n)}}

(***************************************************************************)
(* The handlers as functions of their arguments and of the response, once  *)
(* get_api_key has returned a key: the initial state holds the arguments   *)
(* and the response, the action of a handler applies it.                   *)
(***************************************************************************)
SearchInputs(slack) ==
    {[fn |-> "pending", for |-> "search", start |-> start, num |-> num,
      advanced |-> advanced, raw |-> raw] :
        start \in StartArgs(slack), num \in NumArgs(slack),
        advanced \in {"n", "y"}, raw \in SearchResponses}

ViewInputs(pool) ==
    {[fn |-> "pending", for |-> "view", target_code |-> target_code,
      raw |-> raw] : target_code \in TargetCodes, raw \in pool}

\* search, lines 216-269
SearchTool ==
    /\ call.fn = "pending" /\ call.for = "search"
    /\ LET params == SearchParams("key", "q", call.start, call.num,
                                  call.advanced)
       IN  call' = [fn |-> "search", start |-> call.start, num |-> call.num,
                    params |-> params, raw |-> call.raw,
                    out |-> SearchAfterRequest(call.raw, params.start,
                                               params.num)]

\* entry, lines 273-283
EntryTool ==
    /\ call.fn = "pending" /\ call.for = "view"
    /\ call' = [fn |-> "entry", target_code |-> call.target_code,
                raw |-> call.raw,
                out |-> EntryToolResult(call.raw, call.target_code)]

\* entry_resource, lines 188-212
EntryResource ==
    /\ call.fn = "pending" /\ call.for = "view"
    /\ call' = [fn |-> "resource", target_code |-> call.target_code,
                raw |-> call.raw,
                out |-> EntryResourceResult(call.raw, call.target_code)]

InitNoCred ==
    /\ env = None /\ keyring = "absent" /\ cfWritable = FALSE
    /\ config = NoFile /\ store = None
    /\ InitInv

NextNorm ==
    /\ \/ SearchTool
       \/ EntryTool
       \/ EntryResource
    /\ UNCHANGED <<credVars, invVars>>

InitNorm ==
    /\ InitNoCred
    /\ call \in SearchInputs(ArgSlack) \cup ViewInputs(ShallowViewResponses(1))

SpecNorm == InitNorm /\ [][NextNorm]_vars

InitEntry ==
    /\ InitNoCred
    /\ call \in ViewInputs(ViewResponses(MaxBlocks))

NextEntry ==
    /\ \/ EntryTool
       \/ EntryResource
    /\ UNCHANGED <<credVars, invVars>>

SpecEntry == InitEntry /\ [][NextEntry]_vars

(***************************************************************************)
(* Properties of the credential chain (checked under Spec).                *)
(***************************************************************************)
\* what the persistent sources hold for a reader: the api_key field of a
\* parseable config file, the password of a working secret store
FileKey  == IF config.kind = "obj" THEN config.api_key ELSE None
StoreKey == IF keyring = "ok" THEN store ELSE None

Chain == <<"env", "config", "keyring", "elicit">>
Rank(s) == CHOOSE i \in 1..Len(Chain) : Chain[i] = s
InChainOrder(l) == \A i \in 1..(Len(l) - 1) : Rank(l[i]) < Rank(l[i + 1])

Starts(p)       == pc[p] = "idle" /\ pc'[p] # "idle"
ElicitEnds(p)   == pc[p] = "eliciting" /\ pc'[p] # "eliciting"
WritesBack(p)   == pc[p] = "eliciting" /\ src'[p] = "elicit"

\* the synchronous part of the chain: order of the probes and first hit
ProbesInOrder(p) ==
    Starts(p) =>
        /\ InChainOrder(log'[p])
        /\ Truthy(env) =>
                src'[p] = "env" /\ ret'[p] = env /\ log'[p] = <<"env">>
        /\ (~Truthy(env) /\ Truthy(FileKey)) =>
                /\ src'[p] = "config" /\ ret'[p] = FileKey
                /\ log'[p] = <<"env", "config">>
        /\ (~Truthy(env) /\ ~Truthy(FileKey) /\ Truthy(StoreKey)) =>
                /\ src'[p] = "keyring" /\ ret'[p] = StoreKey
                /\ log'[p] = <<"env", "config", "keyring">>
        /\ (~Truthy(env) /\ ~Truthy(FileKey) /\ ~Truthy(StoreKey)) =>
                /\ src'[p] = "none" /\ ret'[p] = None
                /\ (pc'[p] = "eliciting") = (op'[p] # "resource")
                /\ log'[p] = <<"env", "config">>
                        \o (IF keyring # "absent" THEN <<"keyring">> ELSE <<>>)
                        \o (IF op'[p] # "resource" THEN <<"elicit">> ELSE <<>>)

\* C1 as stated: get_api_key probes env, config file, secret store and
\* elicitation in that order and returns the first non-empty value found,
\* the elicited one included; a non-empty environment variable ends the
\* chain before any other source is consulted.
C1_ReturnsValueFound ==
    [][\A p \in Procs :
        /\ ProbesInOrder(p)
        /\ ElicitEnds(p) =>
            IF reply'[p].action = "accept" /\ Truthy(reply'[p].data)
            THEN src'[p] = "elicit" /\ ret'[p] = reply'[p].data
            ELSE src'[p] = "none" /\ ret'[p] = None]_vars

\* C1 amended: as C1, the elicited value being returned after its
\* surrounding whitespace is removed (a reply of blanks is returned as the
\* empty string).
C1_ReturnsTrimmedValueFound ==
    [][\A p \in Procs :
        /\ ProbesInOrder(p)
        /\ ElicitEnds(p) =>
            IF reply'[p].action = "accept" /\ Truthy(reply'[p].data)
            THEN src'[p] = "elicit" /\ ret'[p] = Strip(reply'[p].data)
            ELSE src'[p] = "none" /\ ret'[p] = None]_vars

\* one invocation was answered with a padded key, a later one found that key
\* trimmed in a persistent source
C1_Witness ==
    \E p, q \in Procs :
        /\ src[p] = "elicit" /\ Truthy(ret[p]) /\ ret[p] # reply[p].data
        /\ log[p] = <<"env", "config", "keyring", "elicit">>
        /\ src[q] = "keyring" /\ ret[q] = ret[p]
        /\ log[q] = <<"env", "config", "keyring">>

\* C2 as stated: once get_api_key has returned an elicited value, every
\* writable sink holds that value, so (when at least one sink is writable)
\* a persistent source holds a key and no later call issues an elicitation.
C2_ElicitedKeyEndsElicitation ==
    [][\A p \in Procs :
        /\ WritesBack(p) =>
            /\ keyring = "ok" => store' = ret'[p]
            /\ cfWritable => config' = ConfigObj(ret'[p])
        /\ (src[p] = "elicit" /\ (keyring = "ok" \/ cfWritable)) =>
            \A q \in Procs : Starts(q) => pc'[q] # "eliciting"]_vars

\* C8: the entry resource never elicits and never writes a credential; with
\* no key in env, config file and secret store it fails at once with the
\* missing-credential error and calls no request_json.
C8_ResourceNeverElicits ==
    [][\A p \in Procs :
        /\ op'[p] = "resource" =>
            /\ pc'[p] # "eliciting"
            /\ reply'[p] = NoReply
            /\ wrote'[p] = {}
        /\ (Starts(p) /\ op'[p] = "resource") =>
            /\ config' = config /\ store' = store
            /\ (~Truthy(env) /\ ~Truthy(FileKey) /\ ~Truthy(StoreKey)) =>
                /\ pc'[p] = "done"
                /\ outcome'[p] = "MissingCredential"
                /\ ~http'[p]]_vars

\* the resource failed for want of a key while a tool call was eliciting
C8_Witness ==
    \E p, q \in Procs :
        /\ op[p] = "resource" /\ pc[p] = "done"
        /\ outcome[p] = "MissingCredential" /\ ~http[p]
        /\ log[p] = <<"env", "config", "keyring">>
        /\ pc[q] = "eliciting"

\* C10 as stated: of two invocations that were eliciting at the same time
\* and both wrote back, each returns the value it was given, and when the
\* second has written back, the config file and the secret store hold the
\* value of that last write-back.
C10_LastWriteBackWins ==
    [][\A p, q \in Procs :
        (p # q /\ WritesBack(p) /\ raced[p] /\ src[q] = "elicit") =>
            /\ ret'[p] = reply'[p].data
            /\ ret[q] = reply[q].data
            /\ config' = ConfigObj(ret'[p])
            /\ store' = ret'[p]]_vars

\* C10 amended: each returns the value it was given with the surrounding
\* whitespace removed; a sink whose write succeeds holds the value of the
\* last write-back, a sink whose write fails keeps what it held.
C10_LastSuccessfulWriteWins ==
    [][\A p, q \in Procs :
        (p # q /\ WritesBack(p) /\ raced[p] /\ src[q] = "elicit") =>
            /\ ret'[p] = Strip(reply'[p].data)
            /\ ret[q] = Strip(reply[q].data)
            /\ config' = (IF cfWritable THEN ConfigObj(ret'[p]) ELSE config)
            /\ store' = (IF keyring = "ok" THEN ret'[p] ELSE store)]_vars

\* both invocations elicited, were given different keys, and both sinks hold
\* the key of one of them: the other's write-back was overwritten
C10_Witness ==
    \E p, q \in Procs :
        /\ src[p] = "elicit" /\ src[q] = "elicit" /\ raced[p]
        /\ Truthy(ret[p]) /\ Truthy(ret[q]) /\ ret[p] # ret[q]
        /\ wrote[p] = {"keyring", "config"} /\ wrote[q] = {"keyring", "config"}
        /\ config = ConfigObj(ret[p]) /\ store = ret[p]

(***************************************************************************)
(* Properties of the search tool and of the error path (SpecNorm).         *)
(***************************************************************************)
Applied == call.fn \in {"search", "entry", "resource"}

\* C4: a search response whose channel.item is a single object X yields an
\* items list of exactly one element, the result being the one of the
\* response that carries [X] instead.
C4_SingleItemAsOneElementList ==
    (/\ call.fn = "search"
     /\ call.raw.error = Absent
     /\ call.raw.channel.t = "obj"
     /\ call.raw.channel.item.enc = "single") =>
        /\ ~call.out.failed
        /\ Len(call.out.result.items) = 1
        /\ call.out =
            SearchAfterRequest(
                [call.raw EXCEPT !.channel.item = ListOf(@.items)],
                call.params.start, call.params.num)

\* C6: a response with an error key makes the search tool and the entry
\* lookup fail before the channel is read, with no result, and with the
\* message "[<code>] <explanation>", followed by " - <message>" exactly when
\* the remote's message is non-empty.
C6_ErrorFailsBeforeParsing ==
    (Applied /\ call.raw.error # Absent) =>
        LET e    == call.raw.error
            code == IF e.error_code = Absent THEN "" ELSE e.error_code.s
            expl == CASE code = "020" -> "Unregistered key."
                      [] code = "021" -> "Temporarily suspended authentication key."
                      [] code = "100" -> "Improper query request (q missing etc.)."
                      [] code = "103" -> "Improper number of results (num)."
                      [] OTHER -> "An error occurred while processing the request."
            nonEmpty == e.message.t = "str" /\ e.message.s # ""
        IN  /\ call.out.failed
            /\ ~call.out.parsed
            /\ call.out.result = Null
            /\ call.out.msg = "[" \o code \o "] " \o expl
                    \o (IF nonEmpty THEN " - " \o e.message.s ELSE "")

\* the search tool failed on code 020 with message x although a channel came
C6_Witness ==
    /\ call.fn = "search"
    /\ call.raw.error = [error_code |-> JStr("020"), message |-> JStr("x")]
    /\ call.raw.channel # Absent
    /\ call.out.failed
    /\ call.out.msg = "[020] Unregistered key. - x"

\* C7: the start and num sent to the remote satisfy start >= 1 and
\* 10 <= num <= 100; a start below 1 is sent as 1, a num below 10 as 10, a
\* num above 100 as 100, and values in range are sent as given.
C7_ClampedParams ==
    call.fn = "search" =>
        /\ call.params.start >= 1
        /\ call.params.num >= 10 /\ call.params.num <= 100
        /\ call.params.start = (IF call.start < 1 THEN 1 ELSE call.start)
        /\ call.params.num = (IF call.num < 10 THEN 10
                              ELSE IF call.num > 100 THEN 100 ELSE call.num)

\* start 0 was sent as 1 and num 101 as 100
C7_Witness ==
    /\ call.fn = "search"
    /\ call.start = 0 /\ call.params.start = 1
    /\ call.num = 101 /\ call.params.num = 100

(***************************************************************************)
(* Properties of the entry normaliser and of the renderer (SpecEntry).     *)
(***************************************************************************)
Listify(f) == IF f.enc = "single" THEN ListOf(f.items) ELSE f

\* the response in which the single values of the chosen levels are sent as
\* one-element sequences
ReencodeCpi(cpi, l3) ==
    IF cpi.isDict /\ l3 THEN [cpi EXCEPT !.sense_info = Listify(@)] ELSE cpi

ReencodeCpiField(f, l2, l3) ==
    LET g == [f EXCEPT !.items =
                [i \in 1..Len(f.items) |-> ReencodeCpi(f.items[i], l3)]]
    IN  IF l2 THEN Listify(g) ELSE g

ReencodePos(pi, l2, l3) ==
    IF pi.isDict
    THEN [pi EXCEPT !.comm_pattern_info = ReencodeCpiField(@, l2, l3)]
    ELSE pi

ReencodePosField(f, l1, l2, l3) ==
    LET g == [f EXCEPT !.items =
                [i \in 1..Len(f.items) |-> ReencodePos(f.items[i], l2, l3)]]
    IN  IF l1 THEN Listify(g) ELSE g

HasWordInfo(raw) ==
    /\ raw.channel # Absent /\ raw.channel # Null
    /\ raw.channel.item # Absent
    /\ raw.channel.item.word_info # Null

Reencode(raw, l1, l2, l3) ==
    IF HasWordInfo(raw)
    THEN [raw EXCEPT !.channel.item.word_info.pos_info =
                ReencodePosField(@, l1, l2, l3)]
    ELSE raw

\* the entry record behind the result of either entry handler
EntryOf(c) == IF c.fn = "resource" THEN c.out.result.entry
              ELSE [target_code |-> c.out.result.target_code,
                    word |-> c.out.result.word,
                    pos |-> c.out.result.pos,
                    senses |-> c.out.result.senses]

Normalized == call.fn \in {"entry", "resource"} /\ ~call.out.failed

\* C3: for each of the levels pos_info, comm_pattern_info and sense_info,
\* the entry record of a response that sends the level as a single object X
\* is the record of the response that sends it as [X].
C3_SingleAsOneElementSequence ==
    Normalized =>
        /\ EntryOf(call) = FetchAfterRequest(
                Reencode(call.raw, TRUE, FALSE, FALSE), call.target_code).result
        /\ EntryOf(call) = FetchAfterRequest(
                Reencode(call.raw, FALSE, TRUE, FALSE), call.target_code).result
        /\ EntryOf(call) = FetchAfterRequest(
                Reencode(call.raw, FALSE, FALSE, TRUE), call.target_code).result

\* C5: the document shows a missing word, pos, sense type or definition as
\* the empty string: the heading is "# <word> (<pos>)" with "" for what is
\* missing, and no sense heading or definition line is the null marker.
C5_NoNullMarker ==
    (call.fn = "resource" /\ ~call.out.failed) =>
        LET e     == call.out.result.entry
            lines == call.out.result.lines
            shown(v) == IF v.t = "str" THEN v.s ELSE ""
        IN  /\ lines[1] = "# " \o shown(e.word) \o " (" \o shown(e.pos) \o ")"
            /\ \A k \in 1..Len(lines) :
                /\ lines[k] # "None"
                /\ \A i \in 1..Len(e.senses) :
                    lines[k] # "## Sense " \o ToString(i) \o ". None"

\* C9: pos is the pos value of the first part-of-speech block that has a
\* non-empty pos, and the empty string when no block has one.
C9_FirstNonEmptyPos ==
    (Normalized /\ HasWordInfo(call.raw)) =>
        LET blocks == call.raw.channel.item.word_info.pos_info.items
            has(i) == blocks[i].isDict /\ TruthyJ(blocks[i].pos)
            hits   == {i \in 1..Len(blocks) : has(i)}
        IN  EntryOf(call).pos =
                (IF hits = {} THEN JStr("")
                 ELSE blocks[CHOOSE i \in hits : \A j \in hits : i <= j].pos)

====
